---- MODULE Spec2Model ----
(***************************************************************************)
(* safeGet (src/src/index.ts): resolving a dot/bracket path inside a       *)
(* nested JavaScript value, with a default for everything that cannot be   *)
(* resolved, a process-wide cache of tokenized paths, and console          *)
(* warnings under options.debug.                                           *)
(*                                                                         *)
(* A JavaScript string is modelled as a sequence of lexemes.  A lexeme is  *)
(* one character ("a", "0", ".", "[", ...) or an identifier written as a   *)
(* whole ("user", "constructor", "length"); no identifier used here is a   *)
(* concatenation of other lexemes, so equal strings are equal sequences.   *)
(* A JavaScript value is a record [type, v]: type is what the code can     *)
(* tell apart (typeof, Array, null), v the payload.                        *)
(***************************************************************************)
EXTENDS Integers, Sequences, FiniteSets, TLC

VARIABLES
    pathCache,  \* the module-level Map<string, string[]>
    call,       \* arguments of the latest safeGet call
    result,     \* its outcome: returned value, thrown or not, console.warn calls
    returned    \* TRUE between a call's return and the caller going on

vars == <<pathCache, call, result, returned>>

-----------------------------------------------------------------------------
(* JavaScript values *)

Undefined == [type |-> "undefined", v |-> 0]
Null      == [type |-> "null", v |-> 0]
Bool(b)   == [type |-> "boolean", v |-> b]
Num(n)    == [type |-> "number", v |-> n]
Str(s)    == [type |-> "string", v |-> s]
Arr(es)   == [type |-> "array", v |-> es]
Obj(ps)   == [type |-> "object", v |-> ps]

EmptyString == Str(<<>>)

\* typeof x
TypeOf(x) ==
    IF x.type \in {"null", "array", "object"} THEN "object" ELSE x.type

\* the truthiness !x negates
Truthy(x) ==
    CASE x.type \in {"undefined", "null"} -> FALSE
      [] x.type = "boolean" -> x.v
      [] x.type = "number" -> x.v # 0
      [] x.type = "string" -> x.v # <<>>
      [] OTHER -> TRUE

Digits == {"0", "1", "2"}

DigitValue(c) == CASE c = "0" -> 0 [] c = "1" -> 1 [] c = "2" -> 2

\* A property key names an array element when it is the canonical decimal
\* form of an integer: digits only, no leading zero.
IsArrayIndex(key) ==
    /\ Len(key) >= 1
    /\ \A i \in 1..Len(key) : key[i] \in Digits
    /\ (Len(key) > 1 => key[1] # "0")

RECURSIVE IndexValue(_)
IndexValue(key) ==
    IF key = <<>> THEN 0
    ELSE 10 * IndexValue(SubSeq(key, 1, Len(key) - 1)) + DigitValue(key[Len(key)])

LengthKey == <<"length">>

\* Object.hasOwn(x, key) throws a TypeError when x is null or undefined.
HasOwnThrows(x) == x.type \in {"undefined", "null"}

\* Object.hasOwn(x, key) for every other x: the own properties of an object
\* are its keys; of an array, its elements and "length"; of a string (boxed),
\* its characters and "length"; a boxed boolean or number has none.
ObjectHasOwn(x, key) ==
    CASE x.type = "object" -> key \in DOMAIN x.v
      [] x.type \in {"array", "string"} ->
            \/ key = LengthKey
            \/ IsArrayIndex(key) /\ IndexValue(key) < Len(x.v)
      [] OTHER -> FALSE

\* x[key] for an own property key of x
GetProperty(x, key) ==
    CASE x.type = "object" -> x.v[key]
      [] x.type = "array" ->
            IF key = LengthKey THEN Num(Len(x.v)) ELSE x.v[IndexValue(key) + 1]
      [] x.type = "string" ->
            IF key = LengthKey THEN Num(Len(x.v)) ELSE Str(<<x.v[IndexValue(key) + 1]>>)

-----------------------------------------------------------------------------
(* Path tokenization *)

\* the replacement without the g flag: only the first "[" becomes "."
ReplaceFirstOpenBracket(s) ==
    [i \in 1..Len(s) |->
        IF s[i] = "[" /\ (\A j \in 1..(i - 1) : s[j] # "[") THEN "." ELSE s[i]]

\* .replace(/\[/g, ".")
ReplaceOpenBracket(s) ==
    [i \in 1..Len(s) |-> IF s[i] = "[" THEN "." ELSE s[i]]

\* .replace(/['"\]]/g, "")
StripQuotesAndClose(s) ==
    SelectSeq(s, LAMBDA c : c \notin {"'", "\"", "]"})

\* .split("."): the pieces between the dots, empty pieces included
RECURSIVE SplitDot(_)
SplitDot(s) ==
    IF \A i \in 1..Len(s) : s[i] # "." THEN <<s>>
    ELSE LET i == CHOOSE i \in 1..Len(s) :
                      s[i] = "." /\ \A j \in 1..(i - 1) : s[j] # "."
         IN  <<SubSeq(s, 1, i - 1)>> \o SplitDot(SubSeq(s, i + 1, Len(s)))

\* the pieces as split, with no .filter(Boolean)
KeepAll(parts) == parts

\* .filter(Boolean): the empty string is the only falsy string
FilterBoolean(parts) ==
    SelectSeq(parts, LAMBDA t : t # <<>>)

Tokenize(p) ==
    FilterBoolean(SplitDot(StripQuotesAndClose(ReplaceOpenBracket(p))))

\* a cache rebuilt around the new entry: the older entries are gone
CacheSetAlone(cache, p, keys) ==
    [q \in {p} |-> keys]

\* pathCache.set(path, keys)
CacheSet(cache, p, keys) ==
    [q \in DOMAIN cache \cup {p} |-> IF q = p THEN keys ELSE cache[q]]

\* let keys = pathCache.get(path); if (!keys) { keys = ...; pathCache.set(path, keys) }
\* An array is truthy, so !keys holds exactly on a miss.
CachedKeys(cache, p) ==
    IF p \in DOMAIN cache
    THEN [keys |-> cache[p], cache |-> cache]
    ELSE [keys |-> Tokenize(p), cache |-> CacheSet(cache, p, Tokenize(p))]

-----------------------------------------------------------------------------
(* safeGet *)

\* console.warn(`[safeGet] Target object is not an object:`, obj)
RootWarning(o) ==
    [msg |-> "Target object is not an object:", key |-> <<>>, args |-> <<o>>]

\* console.warn(`[safeGet] Stopped at key "${key}" because current value is`, current)
StoppedWarning(key, current) ==
    [msg |-> "Stopped at key because current value is", key |-> key, args |-> <<current>>]

\* console.warn(`[safeGet] Key "${key}" does not exist on object.`)
MissingWarning(key) ==
    [msg |-> "Key does not exist on object.", key |-> key, args |-> <<>>]

\* a warning written whether or not options.debug is set
WarnAlways(debug, w) == <<w>>

Warn(debug, w) == IF debug THEN <<w>> ELSE <<>>

\* the guard with its typeof test left out
RootGuardFalsyOnly(o) == ~Truthy(o)

\* if (!obj || typeof obj !== "object")
RootGuard(o) == ~Truthy(o) \/ TypeOf(o) # "object"

\* the guard with its typeof test left out
LoopGuardNullish(current) ==
    current = Null \/ current = Undefined

\* if (current === null || current === undefined || typeof current !== "object")
LoopGuard(current) ==
    current = Null \/ current = Undefined \/ TypeOf(current) # "object"

\* the loop going on to the next key where it should return the default
RECURSIVE WalkSkipMissing(_, _, _)
WalkSkipMissing(current, keys, debug) ==
    IF keys = <<>>
    THEN [kind |-> "end", current |-> current, console |-> <<>>]
    ELSE IF LoopGuard(current)
    THEN [kind |-> "default", current |-> current,
          console |-> Warn(debug, StoppedWarning(Head(keys), current))]
    ELSE IF ObjectHasOwn(current, Head(keys))
    THEN WalkSkipMissing(GetProperty(current, Head(keys)), Tail(keys), debug)
    ELSE WalkSkipMissing(current, Tail(keys), debug)

\* for (const key of keys) { ... }: "end" when every key was consumed,
\* "default" on an early return, "throw" when Object.hasOwn throws.
RECURSIVE Walk(_, _, _)
Walk(current, keys, debug) ==
    IF keys = <<>>
    THEN [kind |-> "end", current |-> current, console |-> <<>>]
    ELSE LET key == Head(keys) IN
         IF LoopGuard(current)
         THEN [kind |-> "default", current |-> current,
               console |-> Warn(debug, StoppedWarning(key, current))]
         ELSE IF HasOwnThrows(current)
         THEN [kind |-> "throw", current |-> current, console |-> <<>>]
         ELSE IF ObjectHasOwn(current, key)
         THEN Walk(GetProperty(current, key), Tail(keys), debug)
         ELSE [kind |-> "default", current |-> current,
               console |-> Warn(debug, MissingWarning(key))]

\* the two flags taken for one: either flag drops null and the empty string
PostWalkSharedFlag(current, d, opts) ==
    IF current = Undefined THEN d
    ELSE IF /\ current \in {Null, EmptyString}
            /\ (opts.treatNullAsMissing \/ opts.treatEmptyStringAsMissing)
    THEN d
    ELSE current

\* the three checks after the loop
PostWalk(current, d, opts) ==
    IF current = Undefined THEN d
    ELSE IF current = Null /\ opts.treatNullAsMissing THEN d
    ELSE IF current = EmptyString /\ opts.treatEmptyStringAsMissing THEN d
    ELSE current

\* safeGet(obj, path, defaultValue, options) run against the cache `cache`
SafeGet(cache, o, p, d, opts) ==
    IF RootGuard(o)
    THEN [ret |-> d, threw |-> FALSE,
          console |-> Warn(opts.debug, RootWarning(o)), cache |-> cache]
    ELSE LET ck == CachedKeys(cache, p)
             w  == Walk(o, ck.keys, opts.debug)
         IN  CASE w.kind = "throw" ->
                    [ret |-> Undefined, threw |-> TRUE,
                     console |-> w.console, cache |-> ck.cache]
               [] w.kind = "default" ->
                    [ret |-> d, threw |-> FALSE,
                     console |-> w.console, cache |-> ck.cache]
               [] w.kind = "end" ->
                    [ret |-> PostWalk(w.current, d, opts), threw |-> FALSE,
                     console |-> <<>>, cache |-> ck.cache]

-----------------------------------------------------------------------------
(* The values and paths the calls are made with *)

\* the object of src/src/index.test.ts, with a string, a null, an empty
\* string and an undefined leaf, and an undefined array element
TestObj ==
    Obj((<<"user">> :> Obj((<<"id">> :> Num(1))
                        @@ (<<"name">> :> Str(<<"a", "b">>))
                        @@ (<<"bio">> :> Null)
                        @@ (<<"nick">> :> EmptyString)
                        @@ (<<"gone">> :> Undefined)
                        @@ (<<"tags">> :> Arr(<<Str(<<"admin">>), Undefined>>))))
     @@ (<<"meta">> :> Null))

\* an object as JSON.parse builds it: the reserved names are own properties
RawObj ==
    Obj((<<"__proto__">> :> Obj(<<"polluted">> :> Bool(TRUE)))
     @@ (<<"constructor">> :> Str(<<"own">>))
     @@ (<<"prototype">> :> Num(2))
     @@ (<<"user">> :> Obj(<<"constructor">> :> Str(<<"own">>))))

\* an array as the root
RootArr ==
    Arr(<<Obj(<<"id">> :> Num(1)), Null, Arr(<<Str(<<"x">>)>>)>>)

TraversableRoots == {TestObj, RawObj, RootArr}

ScalarRoots == {Undefined, Null, Bool(TRUE), Num(0), Str(<<"a", "b">>)}

Roots == TraversableRoots \cup ScalarRoots

\* no default given (undefined), or a default no value in the data equals
Defaults == {Undefined, Str(<<"default">>)}

Options ==
    [treatNullAsMissing : BOOLEAN, treatEmptyStringAsMissing : BOOLEAN, debug : BOOLEAN]

NoOptions ==
    [treatNullAsMissing |-> FALSE, treatEmptyStringAsMissing |-> FALSE, debug |-> FALSE]

Dot(p, k)     == p \o <<".">> \o k
Bracket(p, k) == p \o <<"[">> \o k \o <<"]">>
Quoted(p, k)  == p \o <<"[", "'">> \o k \o <<"'", "]">>

\* paths leading to an array in one of the roots, and index tokens
ArrayPaths == {<<>>, <<"user", ".", "tags">>, <<"2">>}

Indices == {<<"0">>, <<"1">>, <<"2">>, <<"0", "1">>, <<"1", "0">>, LengthKey}

IndexedPaths ==
    {Dot(p, i) : p \in ArrayPaths, i \in Indices}
        \cup {Bracket(p, i) : p \in ArrayPaths, i \in {<<"0">>, <<"1">>, <<"2">>}}

ReservedKeys == {<<"__proto__">>, <<"constructor">>, <<"prototype">>}

PlainPaths ==
    { <<>>, <<".">>, <<"[", "]">>, <<".", ".">>, <<"'", "\"">>,
      <<"user">>, <<"meta">>,
      <<"user", ".", "id">>, <<"user", ".", "name">>, <<"user", ".", "bio">>,
      <<"user", ".", "nick">>, <<"user", ".", "gone">>,
      <<"user", "[", "'", "tags", "'", "]", "[", "1", "]">>,
      <<"user", ".", "name", ".", "0">>, <<"user", ".", "id", ".", "x">>,
      <<"user", ".", "gone", ".", "x">>, <<"meta", ".", "foo">>,
      <<"user", ".", "address", ".", "city">>, <<"user", ".", ".", "id">>,
      <<"0", ".", "id">>, <<"1", ".", "id">>, <<"toString">> }

ReservedPaths ==
    ReservedKeys \cup {Dot(<<"user">>, k) : k \in ReservedKeys}
        \cup {<<"__proto__", ".", "polluted">>}

Paths == PlainPaths \cup IndexedPaths \cup ReservedPaths

\* the paths of the runs that exercise the cache
MemoPaths ==
    { <<>>, <<"user">>, <<"user", ".", "id">>, <<"user", "[", "id", "]">>,
      <<"user", ".", ".", "id">>, <<"meta", ".", "foo">> }

\* every string of at most MaxPathLen lexemes over the characters the
\* tokenizer tells apart and two ordinary ones
MaxPathLen == 4

PathAlphabet == {"a", "0", ".", "[", "]", "'", "\""}

ShortPaths == UNION {[1..n -> PathAlphabet] : n \in 0..MaxPathLen}

\* A run keeps at most this many paths in the cache: once it holds that many,
\* the calls use cached paths only.
MaxCached == 1
MaxMemo == 2

-----------------------------------------------------------------------------
(* The state machine: one safeGet call after another *)

NoCall == [obj |-> Undefined, path |-> <<>>, defaultValue |-> Undefined, options |-> NoOptions]

NoResult == [ret |-> Undefined, threw |-> FALSE, console |-> <<>>]

Init ==
    /\ pathCache = <<>>
    /\ call = NoCall
    /\ result = NoResult
    /\ returned = FALSE

\* a call from entry to return
SafeGetCall(o, p, d, opts) ==
    LET r == SafeGet(pathCache, o, p, d, opts) IN
    /\ call' = [obj |-> o, path |-> p, defaultValue |-> d, options |-> opts]
    /\ result' = [ret |-> r.ret, threw |-> r.threw, console |-> r.console]
    /\ pathCache' = r.cache
    /\ returned' = TRUE

\* the caller has taken the result and goes on; only the cache outlives the call
Resume ==
    /\ returned
    /\ call' = NoCall
    /\ result' = NoResult
    /\ returned' = FALSE
    /\ UNCHANGED pathCache

HasRoom(p, cap) ==
    p \in DOMAIN pathCache \/ Cardinality(DOMAIN pathCache) < cap

Calls(paths, cap) ==
    /\ ~returned
    /\ \E p \in paths :
          /\ HasRoom(p, cap)
          /\ \E o \in Roots, d \in Defaults, opts \in Options :
                SafeGetCall(o, p, d, opts)

Next ==
    \/ Calls(Paths, MaxCached)
    \/ Resume

Spec == Init /\ [][Next]_vars

NextMemo ==
    \/ Calls(MemoPaths, MaxMemo)
    \/ Resume

SpecMemo == Init /\ [][NextMemo]_vars

-----------------------------------------------------------------------------
(* Vocabulary of the properties *)

\* a Mapping or a Sequence
IsTraversable(x) == x.type \in {"object", "array"}

\* The values the walk passes through: the root, then the value under each
\* key for as long as the value reached is traversable and the key is an own
\* key of it.  The trail has one value more than keys were consumed.
RECURSIVE Trail(_, _)
Trail(x, keys) ==
    IF keys # <<>> /\ IsTraversable(x) /\ ObjectHasOwn(x, Head(keys))
    THEN <<x>> \o Trail(GetProperty(x, Head(keys)), Tail(keys))
    ELSE <<x>>

\* The value located at x[k1]...[kn]: found is FALSE when some key is not an
\* own key of the value reached so far.
Located(x, keys) ==
    LET t == Trail(x, keys) IN
    IF Len(t) = Len(keys) + 1
    THEN [found |-> TRUE, value |-> t[Len(t)]]
    ELSE [found |-> FALSE, value |-> Undefined]

\* a token that reads as a non-negative decimal integer
ParsesAsInteger(key) ==
    Len(key) >= 1 /\ \A i \in 1..Len(key) : key[i] \in Digits

CallKeys == Tokenize(call.path)

\* the latest call, made again with other options
Again(opts) ==
    SafeGet(pathCache, call.obj, call.path, call.defaultValue, opts)

\* the latest call, made again with another path
AgainAt(p) ==
    SafeGet(pathCache, call.obj, p, call.defaultValue, call.options)

MissingnessOff ==
    ~call.options.treatNullAsMissing /\ ~call.options.treatEmptyStringAsMissing

-----------------------------------------------------------------------------
(* C1 *)

\* C1: a call whose root is not traversable (null, undefined or a scalar)
\* returns exactly the default, for every path, default and option flags,
\* and does not throw.
C1_NonTraversableRootGivesDefault ==
    (returned /\ ~IsTraversable(call.obj)) =>
        (result.ret = call.defaultValue /\ ~result.threw)

C1_Witness ==
    /\ returned
    /\ call.obj = Str(<<"a", "b">>)
    /\ call.path = <<>>
    /\ call.defaultValue = Str(<<"default">>)
    /\ result.ret = Str(<<"default">>)

(* C2 *)

\* C2: for a traversable root and a path of at least one key: when every key
\* is an own key of the value reached before it, the call returns the value
\* located at root[k1]...[kn], subject only to the post-walk missingness
\* checks; when some key is not an own key of the value reached so far, the
\* call returns the default whatever keys follow.
C2_WalkFollowsOwnKeys ==
    (returned /\ IsTraversable(call.obj) /\ Len(CallKeys) >= 1) =>
        LET loc == Located(call.obj, CallKeys) IN
        /\ ~result.threw
        /\ loc.found =>
              result.ret = PostWalk(loc.value, call.defaultValue, call.options)
        /\ ~loc.found => result.ret = call.defaultValue

C2_Witness ==
    /\ returned
    /\ call.obj = TestObj
    /\ call.path = <<"user", ".", "id">>
    /\ call.defaultValue = Str(<<"default">>)
    /\ result.ret = Num(1)

(* C3 *)

\* C3: when the walk reaches null, undefined or a scalar while a key is still
\* to be consumed, the call returns the default and does not throw; a scalar
\* is never indexed into.
C3_NonTraversableIntermediateGivesDefault ==
    (/\ returned
     /\ IsTraversable(call.obj)
     /\ LET t == Trail(call.obj, CallKeys) IN
        \E i \in 1..Len(t) : i <= Len(CallKeys) /\ ~IsTraversable(t[i]))
        => (result.ret = call.defaultValue /\ ~result.threw)

C3_Witness ==
    /\ returned
    /\ call.obj = TestObj
    /\ call.path = <<"user", ".", "name", ".", "0">>
    /\ call.defaultValue = Str(<<"default">>)
    /\ result.ret = Str(<<"default">>)

(* C4 *)

\* C4: a path holding a reserved key (__proto__, constructor, prototype)
\* resolves to the default, whatever the data holds under that key.
C4_ReservedKeyGivesDefault ==
    (/\ returned
     /\ IsTraversable(call.obj)
     /\ \E i \in 1..Len(CallKeys) : CallKeys[i] \in ReservedKeys)
        => result.ret = call.defaultValue

(* C5 *)

\* C5: when the walk reaches a Sequence and the next key is not a
\* non-negative integer below its length, the call returns the default.
C5_SequenceKeyMustBeIndex ==
    (/\ returned
     /\ IsTraversable(call.obj)
     /\ LET t == Trail(call.obj, CallKeys) IN
        \E i \in 1..Len(t) :
            /\ i <= Len(CallKeys)
            /\ t[i].type = "array"
            /\ ~(ParsesAsInteger(CallKeys[i]) /\ IndexValue(CallKeys[i]) < Len(t[i].v)))
        => result.ret = call.defaultValue

(* C6 *)

\* the latest call reads, with dot notation, index i of the array at path p
ReadsIndex(p, i) ==
    /\ returned
    /\ call.path = Dot(p, i)
    /\ MissingnessOff
    /\ IsTraversable(call.obj)
    /\ LET s == Located(call.obj, Tokenize(p)) IN
       s.found /\ s.value.type = "array" /\ IndexValue(i) < Len(s.value.v)

Element(p, i) == Located(call.obj, Tokenize(p)).value.v[IndexValue(i) + 1]

IndexNumerals == {<<"0">>, <<"1">>, <<"2">>}

\* C6 as stated: for an array s at path p and an index i below its length,
\* the dot form and the bracket form return the same value, and it is s[i].
C6_AsStated ==
    \A p \in ArrayPaths, i \in IndexNumerals :
        ReadsIndex(p, i) =>
            /\ result.ret = AgainAt(Bracket(p, i)).ret
            /\ result.ret = Element(p, i)

ExampleKeys == << <<"a">>, <<"b">>, <<"0">>, <<"c">> >>

\* a path continued by a key tokenizes to the keys of the path and that key,
\* whether the key is written with a dot, in brackets or quoted in brackets
NotationsAgree ==
    /\ \A p \in ShortPaths \cup Paths, k \in {<<"0">>, <<"a">>} :
          /\ Tokenize(Dot(p, k)) = Tokenize(p) \o <<k>>
          /\ Tokenize(Bracket(p, k)) = Tokenize(p) \o <<k>>
          /\ Tokenize(Quoted(p, k)) = Tokenize(p) \o <<k>>
    /\ Tokenize(<<"a", ".", "b", "[", "0", "]", ".", "c">>) = ExampleKeys
    /\ Tokenize(<<"a", ".", "b", ".", "0", ".", "c">>) = ExampleKeys
    /\ Tokenize(<<"a", "[", "'", "b", "'", "]", "[", "0", "]", ".", "c">>) = ExampleKeys

\* C6, amended: the dot form and the bracket form return the same value,
\* which is s[i] unless s[i] is undefined, and then the default; and a path
\* continued by a key tokenizes to the same keys whether the key is written
\* with a dot, in brackets or quoted in brackets.
C6_DotBracketEquivalence ==
    /\ NotationsAgree
    /\ \A p \in ArrayPaths, i \in IndexNumerals :
          ReadsIndex(p, i) =>
              /\ result.ret = AgainAt(Bracket(p, i)).ret
              /\ result.ret = AgainAt(Quoted(p, i)).ret
              /\ result.ret = IF Element(p, i) = Undefined
                              THEN call.defaultValue ELSE Element(p, i)

C6_Witness ==
    /\ ReadsIndex(<<"user", ".", "tags">>, <<"0">>)
    /\ call.obj = TestObj
    /\ call.defaultValue = Str(<<"default">>)
    /\ result.ret = Str(<<"admin">>)

(* C7 *)

\* the walk of the latest call consumed every key
WalkCompleted ==
    returned /\ IsTraversable(call.obj) /\ Located(call.obj, CallKeys).found

FinalValue == Located(call.obj, CallKeys).value

\* C7: when the walk consumes every key and ends at v, the call returns the
\* default exactly when v is undefined, or v is null and treatNullAsMissing
\* is set, or v is the empty string and treatEmptyStringAsMissing is set, and
\* v itself otherwise; treatNullAsMissing does not change the result for the
\* empty string, nor treatEmptyStringAsMissing the result for null.
C7_PostWalkMissingness ==
    WalkCompleted =>
        LET missing ==
                \/ FinalValue = Undefined
                \/ FinalValue = Null /\ call.options.treatNullAsMissing
                \/ FinalValue = EmptyString /\ call.options.treatEmptyStringAsMissing
        IN
        /\ ~result.threw
        /\ result.ret = IF missing THEN call.defaultValue ELSE FinalValue
        /\ FinalValue = EmptyString =>
              Again([call.options EXCEPT !.treatNullAsMissing = ~@]).ret = result.ret
        /\ FinalValue = Null =>
              Again([call.options EXCEPT !.treatEmptyStringAsMissing = ~@]).ret = result.ret

C7_Witness ==
    /\ WalkCompleted
    /\ call.obj = TestObj
    /\ call.path = <<"user", ".", "bio">>
    /\ FinalValue = Null
    /\ call.options.treatNullAsMissing
    /\ ~call.options.treatEmptyStringAsMissing
    /\ call.defaultValue = Str(<<"default">>)
    /\ result.ret = Str(<<"default">>)

(* C8 *)

\* every cache entry is the tokenization of its path, and the latest call
\* returned what it returns against an empty cache
CacheIsTokenization ==
    /\ \A p \in DOMAIN pathCache : pathCache[p] = Tokenize(p)
    /\ returned =>
          LET fresh == SafeGet(<<>>, call.obj, call.path, call.defaultValue, call.options)
          IN  result = [ret |-> fresh.ret, threw |-> fresh.threw, console |-> fresh.console]

\* no step changes or removes a cache entry
CacheEntriesKept ==
    \A p \in DOMAIN pathCache :
        p \in DOMAIN pathCache' /\ pathCache'[p] = pathCache[p]

\* C8: after any sequence of calls every cache entry maps its literal path
\* to the tokenization of that path, entries are never changed or removed,
\* and a call returns the same for a cache hit as for a cache miss, so calls
\* with identical arguments return identical results.
C8_PurityUnderMemoization ==
    []CacheIsTokenization /\ [][CacheEntriesKept]_vars

C8_Witness ==
    /\ returned
    /\ IsTraversable(call.obj)
    /\ Cardinality(DOMAIN pathCache) = 2
    /\ <<"user", ".", "id">> \in DOMAIN pathCache
    /\ call.path = <<"user", "[", "id", "]">>
    /\ result.ret = Num(1)

(* C9 *)

\* C9: without options.debug no call writes a diagnostic; with it, a call
\* writes exactly one when the root guard fails (carrying the root), when an
\* intermediate is not traversable (carrying the key being processed and the
\* value the walk stopped at) or when a key is absent (carrying that key),
\* and none when the walk completes; the returned value is the same with
\* debug set and unset.
C9_Diagnostics ==
    returned =>
        /\ ~call.options.debug => result.console = <<>>
        /\ call.options.debug =>
              LET t == Trail(call.obj, CallKeys)
                  v == t[Len(t)]
              IN
              IF ~IsTraversable(call.obj)
              THEN /\ Len(result.console) = 1
                   /\ result.console[1].msg = "Target object is not an object:"
                   /\ result.console[1].args = <<call.obj>>
              ELSE IF Len(t) = Len(CallKeys) + 1
              THEN result.console = <<>>
              ELSE /\ Len(result.console) = 1
                   /\ result.console[1].key = CallKeys[Len(t)]
                   /\ IF IsTraversable(v)
                      THEN /\ result.console[1].msg = "Key does not exist on object."
                           /\ result.console[1].args = <<>>
                      ELSE /\ result.console[1].msg = "Stopped at key because current value is"
                           /\ result.console[1].args = <<v>>
        /\ Again([call.options EXCEPT !.debug = ~@]).ret = result.ret

C9_Witness ==
    /\ returned
    /\ call.obj = TestObj
    /\ call.path = <<"meta", ".", "foo">>
    /\ call.options.debug
    /\ result.console = <<[msg |-> "Stopped at key because current value is",
                           key |-> <<"foo">>, args |-> <<Null>>]>>
    /\ result.ret = call.defaultValue

(* C10 *)

\* a path made only of separators, brackets and quotes
OnlyPunctuation(p) ==
    \A i \in 1..Len(p) : p[i] \in {".", "[", "]", "'", "\""}

\* a path tokenizes to no key exactly when it is empty or made only of
\* separators, brackets and quotes
NoKeysIffPunctuation ==
    \A p \in ShortPaths \cup Paths : (Tokenize(p) = <<>>) <=> OnlyPunctuation(p)

\* C10: for a traversable root and a path that tokenizes to no key (the empty
\* path, or one made only of separators, brackets and quotes), the call
\* returns the root itself, under every combination of option flags.
C10_EmptyPathGivesRoot ==
    /\ NoKeysIffPunctuation
    /\ (returned /\ IsTraversable(call.obj) /\ OnlyPunctuation(call.path)) =>
          (result.ret = call.obj /\ ~result.threw)

C10_Witness ==
    /\ returned
    /\ call.obj = RootArr
    /\ call.path = <<"[", "]">>
    /\ call.defaultValue = Str(<<"default">>)
    /\ call.options.treatNullAsMissing
    /\ call.options.treatEmptyStringAsMissing
    /\ result.ret = RootArr

====
